---------------------------- MODULE Spec2Model ----------------------------
(***************************************************************************)
(* A model of the quiz runner: app.py (Flask handlers, option shuffler,    *)
(* answer evaluator, question selection) and session_optimizer.py (the     *)
(* inline / spilled session store and its process-wide cache).             *)
(*                                                                         *)
(* Python values are encoded as follows.                                   *)
(*   - str used only by equality (labels, option texts, field names): a    *)
(*     TLA+ string; str parsed by int(): a sequence of one-character       *)
(*     strings.                                                            *)
(*   - None: the value None.                                               *)
(*   - list: a sequence.                                                   *)
(*   - dict whose iteration order the code uses (options, correct_answer   *)
(*     of a mapping question): a sequence of <<key, value>> pairs in       *)
(*     insertion order.                                                    *)
(*   - dict used only by key (session, request.form, user_answers,         *)
(*     session_cache): a function whose DOMAIN is the set of keys.         *)
(*   - a value the code tests with isinstance(_, dict): a record           *)
(*     [dict |-> BOOLEAN, items |-> ...].                                  *)
(***************************************************************************)
EXTENDS Integers, Sequences, FiniteSets, TLC

VARIABLES
    bank,           \* app.py: the list load_questions() returns (_questions_cache)
    session,        \* session[s]: the Flask session (signed cookie) of browser s
    session_cache,  \* session_optimizer.py: session_cache, spill key -> large_data
    clock,          \* the reading datetime.now() gives
    last,           \* the last request served and the response it got
    history,        \* history[s]: what was submitted in the attempt of s since its start
    arg,            \* input of the function under check (function specifications)
    res             \* its result

vars == <<bank, session, session_cache, clock, last, history, arg, res>>

-----------------------------------------------------------------------------
(* Bounds of the model *)

\* browsers (Flask sessions) that talk to the process
NumSessions == 2
\* the clock reads 0 .. MaxClock
MaxClock == 1
\* longest question list given to the storage decision
MaxCount == 42
\* the range bounds given to the selection are -MaxBound .. MaxBound
MaxBound == 3

Sessions == 1 .. NumSessions

-----------------------------------------------------------------------------
(* Python values *)

\* None: a value no str equals
None == "<None>"
\* str(v) as an f-string renders it
Format(v) == IF v = None THEN "None" ELSE v
\* the truth value of a str or None
Truthy(v) == v # None /\ v # ""

Range(f) == { f[i] : i \in DOMAIN f }

\* d.get(k, default) for a dict used by key
DictGet(d, k, default) == IF k \in DOMAIN d THEN d[k] ELSE default

\* d[k] = v for a dict used by key
SetItem(d, k, v) == (k :> v) @@ d

\* an insertion-ordered dict: list(d.keys()), list(d.values()), k in d, d[k]
Keys(d) == [i \in 1 .. Len(d) |-> d[i][1]]
Values(d) == [i \in 1 .. Len(d) |-> d[i][2]]
HasKey(d, k) == \E i \in 1 .. Len(d) : d[i][1] = k
Lookup(d, k) == d[CHOOSE i \in 1 .. Len(d) : d[i][1] = k][2]
\* d[k] = v for an insertion-ordered dict: replace in place, or append
OrderedSet(d, k, v) ==
    IF HasKey(d, k)
    THEN [i \in 1 .. Len(d) |-> IF d[i][1] = k THEN <<k, v>> ELSE d[i]]
    ELSE Append(d, <<k, v>>)

\* the permutations of 1 .. n, as sequences
Perms(n) ==
    { p \in [1 .. n -> 1 .. n] : \A i, j \in 1 .. n : p[i] = p[j] => i = j }

\* str(n) of a question number
Digits == <<"0", "1", "2", "3", "4", "5", "6", "7", "8", "9">>
RECURSIVE Str(_)
Str(n) ==
    IF n < 0 THEN "-" \o Str(-n)
    ELSE IF n < 10 THEN Digits[n + 1]
    ELSE Str(n \div 10) \o Digits[(n % 10) + 1]

\* int(text) for a text of an optional sign and characters: [ok |-> FALSE]
\* stands for ValueError
DigitValue(c) == CHOOSE v \in 0 .. 9 : Digits[v + 1] = c
IsDigit(c) == \E v \in 0 .. 9 : Digits[v + 1] = c
RECURSIVE DigitsValue(_)
DigitsValue(cs) ==
    IF cs = <<>> THEN 0
    ELSE 10 * DigitsValue(SubSeq(cs, 1, Len(cs) - 1)) + DigitValue(cs[Len(cs)])
PyInt(text) ==
    LET signed == text # <<>> /\ text[1] \in {"-", "+"}
        body == IF signed THEN Tail(text) ELSE text
    IN  IF body # <<>> /\ \A i \in 1 .. Len(body) : IsDigit(body[i])
        THEN [ok |-> TRUE,
              val |-> IF signed /\ text[1] = "-" THEN 0 - DigitsValue(body)
                      ELSE DigitsValue(body)]
        ELSE [ok |-> FALSE, val |-> 0]

-----------------------------------------------------------------------------
(* session_optimizer.py *)

\* len(json.dumps(sample_data)) when sample_data holds no question
SampleOverhead == 108
\* the limits of should_use_large_session
SizeLimit == 3000
CountLimit == 40

\* len(json.dumps(q, ensure_ascii=False)): the serialized length of a question record is a datum
\* of the record; the shuffle moves texts between labels and keeps it
JsonLen(q) == q.json_len

\* hashlib.md5(timestamp.encode()).hexdigest()[:16]: a function of the
\* timestamp text alone; distinct readings of the model get distinct digests
generate_session_id(now) == "md5:" \o Str(now)

\* store_large_session with the key generated once for the session and once
\* more, at a later reading, for the cache
store_large_session_rekeyed(cache, questions, quiz_mode, now) ==
    [compact_data |->
        [session_id |-> generate_session_id(now),
         quiz_mode |-> quiz_mode,
         total_questions |-> Len(questions),
         current_question |-> 0,
         user_answers |-> <<>>,
         correct_answers |-> 0,
         start_time |-> now,
         is_large_session |-> TRUE],
     session_cache |-> SetItem(cache, generate_session_id(now + 1),
                               [questions |-> questions, created_at |-> now])]

\* store_large_session with the question list left in compact_data
store_large_session_fat(cache, questions, quiz_mode, now) ==
    LET session_id == generate_session_id(now)
    IN  [compact_data |->
            [session_id |-> session_id,
             quiz_mode |-> quiz_mode,
             questions |-> questions,
             total_questions |-> Len(questions),
             current_question |-> 0,
             user_answers |-> <<>>,
             correct_answers |-> 0,
             start_time |-> now,
             is_large_session |-> TRUE],
         session_cache |-> SetItem(cache, session_id,
                                   [questions |-> questions, created_at |-> now])]

\* store_large_session builds compact_data and writes session_cache: the
\* result holds both
store_large_session(cache, questions, quiz_mode, now) ==
    LET session_id == generate_session_id(now)
        compact_data ==
            [session_id |-> session_id,
             quiz_mode |-> quiz_mode,
             total_questions |-> Len(questions),
             current_question |-> 0,
             user_answers |-> <<>>,
             correct_answers |-> 0,
             start_time |-> now,
             is_large_session |-> TRUE]
        large_data == [questions |-> questions, created_at |-> now]
    IN  [compact_data |-> compact_data,
         session_cache |-> SetItem(cache, session_id, large_data)]

\* what a read of the questions returns: a list, or None
Some(list) == [is_none |-> FALSE, list |-> list]
Nothing == [is_none |-> TRUE, list |-> <<>>]
\* Python's "not questions"
Falsy(questions) == questions.is_none \/ questions.list = <<>>

\* get_session_questions with an empty list, instead of None, for a key
\* that is not in the cache
get_session_questions_empty(cache, session_data) ==
    IF DictGet(session_data, "is_large_session", FALSE)
    THEN IF "session_id" \in DOMAIN session_data
            /\ session_data["session_id"] \in DOMAIN cache
         THEN Some(cache[session_data["session_id"]].questions)
         ELSE Some(<<>>)
    ELSE Some(DictGet(session_data, "questions", <<>>))

get_session_questions(cache, session_data) ==
    IF DictGet(session_data, "is_large_session", FALSE)
    THEN IF "session_id" \in DOMAIN session_data
            /\ session_data["session_id"] \in DOMAIN cache
         THEN Some(cache[session_data["session_id"]].questions)
         ELSE Nothing
    ELSE Some(DictGet(session_data, "questions", <<>>))

estimate_session_size(questions) ==
    LET estimated_size ==
            SampleOverhead + (IF questions # <<>> THEN JsonLen(questions[1]) ELSE 0)
    IN  IF questions # <<>> THEN estimated_size * Len(questions) ELSE 0

\* should_use_large_session with the size limit inclusive
should_use_large_session_inclusive(questions) ==
    estimate_session_size(questions) >= SizeLimit \/ Len(questions) > CountLimit

should_use_large_session(questions) ==
    estimate_session_size(questions) > SizeLimit \/ Len(questions) > CountLimit

-----------------------------------------------------------------------------
(* app.py: question records *)

\* A question record: [question_number, json_len, options, correct_answer].
\* options is an ordered dict: label -> text (standard question) or
\* sub-field -> list of candidates (mapping question). correct_answer is
\* [dict |-> FALSE, items |-> list of labels] or
\* [dict |-> TRUE, items |-> ordered dict sub-field -> value].
PyList(items) == [dict |-> FALSE, items |-> items]
PyDict(items) == [dict |-> TRUE, items |-> items]

is_mapping_question(question) == question.correct_answer.dict

is_multiple_choice_question(question) ==
    IF is_mapping_question(question) THEN FALSE
    ELSE Len(question.correct_answer.items) > 1

-----------------------------------------------------------------------------
(* app.py: the option shuffler. random.shuffle is a choice of permutation:  *)
(* a shuffle choice is a sequence of permutations, one for a standard       *)
(* question, one per sub-field for a mapping question.                      *)

\* a shuffle that draws each position anew, so that a value can come twice
Shuffled_redrawn(values, perm) == [i \in 1 .. Len(values) |-> values[perm[1]]]
\* a shuffle that loses the value drawn last
Shuffled_short(values, perm) == [i \in 1 .. Len(values) - 1 |-> values[perm[i]]]

\* random.shuffle(values) with the permutation perm drawn
Shuffled(values, perm) == [i \in 1 .. Len(values) |-> values[perm[i]]]

\* the loop of lines 125-133 from position i on: value_to_new_key, an ordered
\* dict filled in the order the loop writes it
RECURSIVE ValueToNewKey(_, _, _, _)
ValueToNewKey(original_options, option_values, i, value_to_new_key) ==
    IF i > Len(option_values) THEN value_to_new_key
    ELSE LET value == option_values[i]
             new_key == Keys(original_options)[i]
             hits == { j \in 1 .. Len(original_options) :
                           original_options[j][2] = value }
             first == CHOOSE j \in hits : \A k \in hits : j <= k
         IN  ValueToNewKey(original_options, option_values, i + 1,
                 IF hits = {} THEN value_to_new_key
                 ELSE OrderedSet(value_to_new_key, original_options[first][1], new_key))

\* question.copy(): a new dict holding the same fields, so that an
\* assignment to a field of the copy does not reach the input (alias: the
\* result is the input itself)
question_alias(question) == [alias |-> TRUE, value |-> question]
question_copy(question) == [alias |-> FALSE, value |-> question]

\* option_list.copy(): a new list, so that shuffling it in place does not
\* reach the input's list
list_alias(option_list) == [alias |-> TRUE, value |-> option_list]
list_copy(option_list) == [alias |-> FALSE, value |-> option_list]

\* A shuffle returns [fault, question, input]: the record returned, and the
\* record passed in as the call leaves it. [fault |-> TRUE] stands for the
\* KeyError of line 136, raised before the fields are assigned.
_shuffle_standard_question_options(question, choice) ==
    LET shuffled_question == question_copy(question)
        original_options == question.options
        option_keys == Keys(original_options)
        option_values == Shuffled(Values(original_options), choice[1])
        original_correct == question.correct_answer.items
        shuffled_options == [i \in 1 .. Len(option_values) |->
                                 <<option_keys[i], option_values[i]>>]
        value_to_new_key == ValueToNewKey(original_options, option_values, 1, <<>>)
        returned == [shuffled_question.value EXCEPT
                        !.options = shuffled_options,
                        !.correct_answer = PyList(
                            [c \in 1 .. Len(original_correct) |->
                                Lookup(value_to_new_key, original_correct[c])])]
    IN  IF \A c \in 1 .. Len(original_correct) :
               HasKey(value_to_new_key, original_correct[c])
        THEN [fault |-> FALSE, question |-> returned,
              input |-> IF shuffled_question.alias THEN returned ELSE question]
        ELSE [fault |-> TRUE, question |-> question, input |-> question]

\* [fault |-> TRUE] stands for the KeyError of line 165. Lines 155-156 give
\* the copy empty dicts before the loop reads question['options'].
_shuffle_mapping_question_options(question, choice) ==
    LET shuffled_question == question_copy(question)
        emptied == [shuffled_question.value EXCEPT
                       !.options = <<>>, !.correct_answer = PyDict(<<>>)]
        read == IF shuffled_question.alias THEN emptied ELSE question
        options == read.options
        correct == read.correct_answer.items
        shuffled_options == [i \in 1 .. Len(options) |-> list_copy(options[i][2])]
        returned == [emptied EXCEPT
                        !.options = [i \in 1 .. Len(options) |->
                            <<options[i][1],
                              Shuffled(shuffled_options[i].value, choice[i])>>],
                        !.correct_answer = PyDict(
                            [i \in 1 .. Len(options) |->
                                <<options[i][1], Lookup(correct, options[i][1])>>])]
        passed == [question EXCEPT
                      !.options = [i \in 1 .. Len(question.options) |->
                          IF i <= Len(options) /\ shuffled_options[i].alias
                          THEN returned.options[i]
                          ELSE question.options[i]]]
    IN  IF \A i \in 1 .. Len(options) : HasKey(correct, options[i][1])
        THEN [fault |-> FALSE, question |-> returned,
              input |-> IF shuffled_question.alias THEN returned ELSE passed]
        ELSE [fault |-> TRUE, question |-> question, input |-> question]

shuffle_question_options(question, choice) ==
    IF is_mapping_question(question)
    THEN _shuffle_mapping_question_options(question, choice)
    ELSE _shuffle_standard_question_options(question, choice)

\* the permutations random.shuffle can draw for one question
MaxOptions == 3
SmallPerms == UNION { Perms(n) : n \in 0 .. MaxOptions }
ShuffleChoices(question) ==
    IF is_mapping_question(question)
    THEN { c \in [1 .. Len(question.options) -> SmallPerms] :
             \A i \in 1 .. Len(question.options) :
                 c[i] \in Perms(Len(question.options[i][2])) }
    ELSE { <<p>> : p \in Perms(Len(question.options)) }

\* the draws for a list of questions, one shuffle choice per question
ListChoices(questions) ==
    { c \in [1 .. Len(questions) -> UNION { ShuffleChoices(questions[i]) :
                                               i \in 1 .. Len(questions) }] :
        \A i \in 1 .. Len(questions) : c[i] \in ShuffleChoices(questions[i]) }

-----------------------------------------------------------------------------
(* app.py: the answer evaluator. request.form is a MultiDict: a dict from   *)
(* field name to the list of the values posted for it.                      *)

FormHas(form_data, field_name) ==
    field_name \in DOMAIN form_data /\ form_data[field_name] # <<>>

\* form_data.get(field_name) and form_data.get(field_name, default)
FormGet(form_data, field_name) ==
    IF FormHas(form_data, field_name) THEN form_data[field_name][1] ELSE None
FormGetOr(form_data, field_name, default) ==
    IF FormHas(form_data, field_name) THEN form_data[field_name][1] ELSE default

FormGetList(form_data, field_name) ==
    IF field_name \in DOMAIN form_data THEN form_data[field_name] ELSE <<>>

\* the order of str on the labels of the model
Alphabet == <<"", "A", "B", "C", "D", "E", "Z">>
Rank(label) == CHOOSE i \in 1 .. Len(Alphabet) : Alphabet[i] = label

\* sorted(labels)
RECURSIVE Insert(_, _)
Insert(sorted, x) ==
    IF sorted = <<>> THEN <<x>>
    ELSE IF Rank(x) < Rank(sorted[1]) THEN <<x>> \o sorted
    ELSE <<sorted[1]>> \o Insert(Tail(sorted), x)
RECURSIVE Sorted(_)
Sorted(labels) ==
    IF labels = <<>> THEN <<>>
    ELSE Insert(Sorted(SubSeq(labels, 1, Len(labels) - 1)), labels[Len(labels)])

\* sep.join(texts)
RECURSIVE Join(_, _)
Join(texts, sep) ==
    IF texts = <<>> THEN ""
    ELSE IF Len(texts) = 1 THEN texts[1]
    ELSE texts[1] \o sep \o Join(Tail(texts), sep)

RECURSIVE get_answer_text_from_keys(_, _)
get_answer_text_from_keys(question, answer_keys) ==
    IF answer_keys = <<>> THEN <<>>
    ELSE LET key == answer_keys[1]
             rest == get_answer_text_from_keys(question, Tail(answer_keys))
         IN  IF HasKey(question.options, key)
             THEN <<key \o ") " \o Lookup(question.options, key)>> \o rest
             ELSE rest

\* sub_question_key.replace('_', ' ').title(): a rendering of the key
DisplayKey(sub_question_key) == "Title(" \o sub_question_key \o ")"

\* user_answers is an ordered dict sub-field -> value; .get(key, 'Not answered')
get_mapping_answer_display(question, user_answers) ==
    LET options == question.options
        correct == question.correct_answer.items
        user_parts == [i \in 1 .. Len(options) |->
            DisplayKey(options[i][1]) \o ": " \o
            Format(IF HasKey(user_answers, options[i][1])
                   THEN Lookup(user_answers, options[i][1])
                   ELSE "Not answered")]
        correct_parts == [i \in 1 .. Len(options) |->
            DisplayKey(options[i][1]) \o ": " \o Lookup(correct, options[i][1])]
    IN  IF \A i \in 1 .. Len(options) : HasKey(correct, options[i][1])
        THEN [fault |-> FALSE,
              user_display |-> Join(user_parts, " | "),
              correct_display |-> Join(correct_parts, " | ")]
        ELSE [fault |-> TRUE, user_display |-> "", correct_display |-> ""]

\* the form field of a standard question, and of a sub-field of a mapping
\* question (lines 209-212, 224-227, 244-247)
StandardField(question, question_prefix) ==
    IF question_prefix = "batch"
    THEN "question_" \o Str(question.question_number)
    ELSE question_prefix \o "answer"
MappingField(question, question_prefix, sub_question_key) ==
    IF question_prefix = "batch"
    THEN "mapping_" \o Str(question.question_number) \o "_" \o sub_question_key
    ELSE question_prefix \o "mapping_" \o sub_question_key

\* what process_user_answer returns: the tuple, or an exception raised
Evaluated(user_answers, is_correct, user_display, correct_display) ==
    [fault |-> FALSE, user_answers |-> user_answers, is_correct |-> is_correct,
     user_display |-> user_display, correct_display |-> correct_display]
Raised ==
    [fault |-> TRUE, user_answers |-> <<>>, is_correct |-> FALSE,
     user_display |-> "", correct_display |-> ""]

\* _process_mapping_answer giving the question for one right sub-field
_process_mapping_answer_partial(question, form_data, question_prefix, correct_answers) ==
    LET options == question.options
        field_name(sub_question_key) ==
            MappingField(question, question_prefix, sub_question_key)
        user_answers == [i \in 1 .. Len(options) |->
            <<options[i][1], FormGet(form_data, field_name(options[i][1]))>>]
        display == get_mapping_answer_display(question, user_answers)
    IN  IF display.fault THEN Raised
        ELSE Evaluated(user_answers,
                 \E i \in 1 .. Len(options) :
                     user_answers[i][2] = Lookup(correct_answers, options[i][1]),
                 display.user_display, display.correct_display)

_process_mapping_answer(question, form_data, question_prefix, correct_answers) ==
    LET options == question.options
        field_name(sub_question_key) ==
            MappingField(question, question_prefix, sub_question_key)
        user_answers == [i \in 1 .. Len(options) |->
            <<options[i][1], FormGet(form_data, field_name(options[i][1]))>>]
        display == get_mapping_answer_display(question, user_answers)
    IN  IF display.fault THEN Raised
        ELSE Evaluated(user_answers,
                 \A i \in 1 .. Len(options) :
                     user_answers[i][2] = Lookup(correct_answers, options[i][1]),
                 display.user_display, display.correct_display)

\* _process_multiple_choice_answer comparing the labels in the order posted
_process_multiple_choice_answer_unsorted(question, form_data, question_prefix, correct_answers) ==
    LET field_name == StandardField(question, question_prefix)
        user_answers == FormGetList(form_data, field_name)
        correct_answers_sorted == Sorted(correct_answers)
        user_answer_texts ==
            IF user_answers # <<>>
            THEN get_answer_text_from_keys(question, user_answers)
            ELSE <<"None">>
        correct_answer_texts ==
            get_answer_text_from_keys(question, correct_answers_sorted)
    IN  Evaluated(user_answers, user_answers = correct_answers_sorted,
            Join(user_answer_texts, " | "), Join(correct_answer_texts, " | "))

_process_multiple_choice_answer(question, form_data, question_prefix, correct_answers) ==
    LET field_name == StandardField(question, question_prefix)
        user_answers == Sorted(FormGetList(form_data, field_name))
        correct_answers_sorted == Sorted(correct_answers)
        user_answer_texts ==
            IF user_answers # <<>>
            THEN get_answer_text_from_keys(question, user_answers)
            ELSE <<"None">>
        correct_answer_texts ==
            get_answer_text_from_keys(question, correct_answers_sorted)
    IN  Evaluated(user_answers, user_answers = correct_answers_sorted,
            Join(user_answer_texts, " | "), Join(correct_answer_texts, " | "))

\* _process_single_answer taking any label of the question for correct
_process_single_answer_any_option(question, form_data, question_prefix, correct_answers) ==
    LET field_name == StandardField(question, question_prefix)
        user_answer == FormGet(form_data, field_name)
        user_answers == IF Truthy(user_answer) THEN <<user_answer>> ELSE <<>>
        user_answer_texts ==
            IF Truthy(user_answer)
            THEN get_answer_text_from_keys(question, <<user_answer>>)
            ELSE <<"None">>
        correct_answer_texts == get_answer_text_from_keys(question, correct_answers)
    IN  IF correct_answers = <<>> \/ user_answer_texts = <<>>
           \/ correct_answer_texts = <<>>
        THEN Raised
        ELSE Evaluated(user_answers, HasKey(question.options, user_answer),
                 user_answer_texts[1], correct_answer_texts[1])

\* Raised stands for the IndexError of correct_answers[0] or of texts[0]
_process_single_answer(question, form_data, question_prefix, correct_answers) ==
    LET field_name == StandardField(question, question_prefix)
        user_answer == FormGet(form_data, field_name)
        user_answers == IF Truthy(user_answer) THEN <<user_answer>> ELSE <<>>
        user_answer_texts ==
            IF Truthy(user_answer)
            THEN get_answer_text_from_keys(question, <<user_answer>>)
            ELSE <<"None">>
        correct_answer_texts == get_answer_text_from_keys(question, correct_answers)
    IN  IF correct_answers = <<>> \/ user_answer_texts = <<>>
           \/ correct_answer_texts = <<>>
        THEN Raised
        ELSE Evaluated(user_answers, user_answer = correct_answers[1],
                 user_answer_texts[1], correct_answer_texts[1])

\* AnswerProcessor(question).process_user_answer(form_data, question_prefix)
process_user_answer(question, form_data, question_prefix) ==
    LET correct_answers == question.correct_answer.items
    IN  IF is_mapping_question(question)
        THEN _process_mapping_answer(question, form_data, question_prefix, correct_answers)
        ELSE IF is_multiple_choice_question(question)
        THEN _process_multiple_choice_answer(question, form_data, question_prefix,
                                             correct_answers)
        ELSE _process_single_answer(question, form_data, question_prefix, correct_answers)

-----------------------------------------------------------------------------
(* app.py: question selection. random.sample is a choice of distinct        *)
(* positions of the population: the draw.                                   *)

\* an int, or None, as get_question_subset takes them
SomeInt(n) == [is_none |-> FALSE, val |-> n]
NoInt == [is_none |-> TRUE, val |-> 0]
\* the truth value of an int or None
TruthyInt(x) == ~x.is_none /\ x.val # 0

Min(a, b) == IF a <= b THEN a ELSE b

\* a list of questions, or a ValueError raised
Selected(list) == [error |-> FALSE, list |-> list]
ValueError == [error |-> TRUE, list |-> <<>>]

\* the draws of random.sample(population, k)
Samples(n, k) ==
    { d \in [1 .. k -> 1 .. n] : \A i, j \in 1 .. k : d[i] = d[j] => i = j }

\* random.sample(population, k) with the draw made
random_sample(population, k, draw) ==
    IF k < 0 \/ k > Len(population) THEN ValueError
    ELSE Selected([i \in 1 .. k |-> population[draw[i]]])

\* [q for q in questions if start_range <= q['question_number'] <= end_range]
RECURSIVE Filtered(_, _, _)
Filtered(questions, start_range, end_range) ==
    IF questions = <<>> THEN <<>>
    ELSE LET q == questions[1]
             rest == Filtered(Tail(questions), start_range, end_range)
         IN  IF start_range <= q.question_number /\ q.question_number <= end_range
             THEN <<q>> \o rest
             ELSE rest

\* get_question_subset sampling num_random questions whatever the bank holds
get_question_subset_unclamped(questions, selection_type, start_range, end_range, num_random, draw) ==
    IF selection_type = "all" THEN Selected(questions)
    ELSE IF selection_type = "range" /\ TruthyInt(start_range) /\ TruthyInt(end_range)
    THEN Selected(Filtered(questions, start_range.val, end_range.val))
    ELSE IF selection_type = "random" /\ TruthyInt(num_random)
    THEN random_sample(questions, num_random.val, draw)
    ELSE Selected(questions)

get_question_subset(questions, selection_type, start_range, end_range, num_random, draw) ==
    IF selection_type = "all" THEN Selected(questions)
    ELSE IF selection_type = "range" /\ TruthyInt(start_range) /\ TruthyInt(end_range)
    THEN Selected(Filtered(questions, start_range.val, end_range.val))
    ELSE IF selection_type = "random" /\ TruthyInt(num_random)
    THEN random_sample(questions, Min(num_random.val, Len(questions)), draw)
    ELSE Selected(questions)

\* int(form_data.get(field, default)): the field's text parsed, or the default
FormInt(form_data, field, default) ==
    IF FormHas(form_data, field) THEN PyInt(form_data[field][1])
    ELSE [ok |-> TRUE, val |-> default]

_get_selected_questions(questions, selection_type, form_data, draw) ==
    IF selection_type = "range"
    THEN LET start_range == FormInt(form_data, "start_range", 1)
             end_range == FormInt(form_data, "end_range", Len(questions))
         IN  IF ~start_range.ok \/ ~end_range.ok THEN ValueError
             ELSE get_question_subset(questions, "range", SomeInt(start_range.val),
                                      SomeInt(end_range.val), NoInt, draw)
    ELSE IF selection_type = "random"
    THEN LET num_random == FormInt(form_data, "num_random", 10)
         IN  IF ~num_random.ok THEN ValueError
             ELSE get_question_subset(questions, "random", NoInt, NoInt,
                                      SomeInt(num_random.val), draw)
    ELSE Selected(questions)

\* the size of the sample start_quiz draws for this form (0 when it draws none)
SampleSize(questions, form_data) ==
    LET num_random == FormInt(form_data, "num_random", 10)
        k == Min(num_random.val, Len(questions))
    IN  IF FormGetOr(form_data, "selection_type", "all") = "random" /\ num_random.ok
           /\ num_random.val # 0 /\ k >= 0
        THEN k ELSE 0

-----------------------------------------------------------------------------
(* app.py: the session of a request *)

\* _initialize_quiz_session keeping in the cache the new attempt only
_initialize_quiz_session_evicting(cache, quiz_mode, questions, now) ==
    IF should_use_large_session(questions)
    THEN LET stored == store_large_session(<<>>, questions, quiz_mode, now)
         IN  [session |-> stored.compact_data, session_cache |-> stored.session_cache]
    ELSE [session |->
              [quiz_mode |-> quiz_mode,
               questions |-> questions,
               current_question |-> 0,
               user_answers |-> <<>>,
               correct_answers |-> 0,
               start_time |-> now,
               is_large_session |-> FALSE],
          session_cache |-> cache]

\* session.clear() then the update of _initialize_quiz_session: the new
\* session and the new session_cache
_initialize_quiz_session(cache, quiz_mode, questions, now) ==
    IF should_use_large_session(questions)
    THEN LET stored == store_large_session(cache, questions, quiz_mode, now)
         IN  [session |-> stored.compact_data, session_cache |-> stored.session_cache]
    ELSE [session |->
              [quiz_mode |-> quiz_mode,
               questions |-> questions,
               current_question |-> 0,
               user_answers |-> <<>>,
               correct_answers |-> 0,
               start_time |-> now,
               is_large_session |-> FALSE],
          session_cache |-> cache]

_get_session_questions(cache, sess) ==
    IF DictGet(sess, "is_large_session", FALSE)
    THEN get_session_questions(cache, sess)
    ELSE Some(DictGet(sess, "questions", <<>>))

-----------------------------------------------------------------------------
(* The question banks and the requests of the model *)

Q1 == [question_number |-> 1, json_len |-> 100,
       options |-> << <<"A", "x1">>, <<"B", "x2">> >>,
       correct_answer |-> PyList(<<"A">>)]
Q2 == [question_number |-> 2, json_len |-> 3000,
       options |-> << <<"service", <<"c1", "c2">> >> >>,
       correct_answer |-> PyDict(<< <<"service", "c1">> >>)]

\* questions.json as one browser uses it, and as NumSessions browsers share it
Bank == <<Q1, Q2>>
SharedBanks == { <<Q1>>, <<Q2>> }

Modes == {"immediate", "batch"}

\* the texts typed into the range fields and the count field of the start form
RangePairs ==
    { << <<"a", "b", "c">>, <<"2">> >>,
      << <<"2">>, <<"1">> >>,
      << <<"1", "0", "0", "0">>, <<"2", "0", "0", "0">> >> }
CountTexts == { <<"-", "1">>, <<"0">>, <<"2">> }

\* the forms posted to /start
StartForms ==
    { [quiz_mode |-> <<"batch">>, selection_type |-> <<"all">>] }
    \cup { [quiz_mode |-> <<m>>, selection_type |-> <<"range">>,
            start_range |-> << <<"2">> >>, end_range |-> << <<"2">> >>] : m \in Modes }
    \cup { [selection_type |-> <<"range">>,
            start_range |-> <<r[1]>>, end_range |-> <<r[2]>>] : r \in RangePairs }
    \cup { [selection_type |-> <<"range">>, end_range |-> << <<"1">> >>] }
    \cup { [selection_type |-> <<"random">>, num_random |-> <<n>>] : n \in CountTexts }

\* the forms posted to /start while NumSessions browsers share the process
SharedStartForms ==
    { <<>>,
      [selection_type |-> <<"range">>,
       start_range |-> << <<"2">> >>, end_range |-> << <<"1">> >>] }

\* the values posted for the field of a standard question, and of a sub-field
StandardPosts == { <<"A">>, <<"Z">> }
MappingPosts == { <<"c1">> }

\* the forms a browser posts for one question: each field absent, or posted
RECURSIVE SubFieldForms(_, _, _)
SubFieldForms(question, question_prefix, i) ==
    IF i > Len(question.options) THEN { <<>> }
    ELSE LET field == MappingField(question, question_prefix, question.options[i][1])
             rest == SubFieldForms(question, question_prefix, i + 1)
         IN  rest \cup { (field :> p) @@ f : p \in MappingPosts, f \in rest }
QuestionForms(question, question_prefix) ==
    IF is_mapping_question(question)
    THEN SubFieldForms(question, question_prefix, 1)
    ELSE { <<>> } \cup { (StandardField(question, question_prefix) :> p) :
                             p \in StandardPosts }

\* the forms a browser posts for a list of questions
RECURSIVE PostedForms(_, _)
PostedForms(questions, question_prefix) ==
    IF questions = <<>> THEN { <<>> }
    ELSE { a @@ b : a \in QuestionForms(questions[1], question_prefix),
                    b \in PostedForms(Tail(questions), question_prefix) }

-----------------------------------------------------------------------------
(* app.py: the request handlers. Each action serves one request of browser  *)
(* s and records the request and its response in last.                      *)

\* the record of a request: the handler, the browser, the form posted to
\* /start, the response (render a page, redirect to a route, or an unhandled
\* exception), the is_correct of the feedback page, and the list start_quiz
\* shuffled
Served(op, s, form_data, status, target, is_correct, questions) ==
    [op |-> op, sid |-> s, form |-> form_data, status |-> status,
     target |-> target, is_correct |-> is_correct, questions |-> questions]
Render(op, s, form_data, page) == Served(op, s, form_data, "render", page, FALSE, <<>>)
Redirect(op, s, form_data, route) ==
    Served(op, s, form_data, "redirect", route, FALSE, <<>>)
Fault(op, s, form_data) == Served(op, s, form_data, "fault", "500", FALSE, <<>>)

\* the history of an attempt: the is_correct of each immediate submission
\* evaluated since the start, and whether a batch submission was evaluated
NoHistory == [verdicts |-> <<>>, batched |-> FALSE]

\* no function is under check
NoCall == [fn |-> "none"]

\* index dropping the question list in place of session.clear()
index_dropping_questions(s) ==
    /\ session' = [session EXCEPT ![s] =
            [k \in DOMAIN @ \ {"questions"} |-> @[k]]]
    /\ history' = [history EXCEPT ![s] = NoHistory]
    /\ last' = Render("index", s, <<>>, "index")
    /\ UNCHANGED <<bank, session_cache, clock, arg, res>>

index(s) ==
    /\ session' = [session EXCEPT ![s] = <<>>]
    /\ history' = [history EXCEPT ![s] = NoHistory]
    /\ last' = Render("index", s, <<>>, "index")
    /\ UNCHANGED <<bank, session_cache, clock, arg, res>>

\* the list comprehension of line 386
ShuffleAll(selected_questions, choices) ==
    [i \in 1 .. Len(selected_questions) |->
        shuffle_question_options(selected_questions[i], choices[i])]

\* questions.json as loaded, after the shuffles were handed its records:
\* the selected questions are the records of the bank themselves
BankAfter(questions, selected_questions, shuffled) ==
    [i \in 1 .. Len(questions) |->
        LET uses == { j \in 1 .. Len(selected_questions) :
                        selected_questions[j].question_number
                            = questions[i].question_number }
        IN  IF uses = {} THEN questions[i]
            ELSE shuffled[CHOOSE j \in uses : TRUE].input]

start_quiz(s, forms) ==
    \E form_data \in forms :
    \E draw \in Samples(Len(bank), SampleSize(bank, form_data)) :
        LET quiz_mode == FormGetOr(form_data, "quiz_mode", "immediate")
            selection_type == FormGetOr(form_data, "selection_type", "all")
            selected == _get_selected_questions(bank, selection_type, form_data, draw)
        IN  IF bank = <<>> \/ selected.error
            THEN /\ last' = Redirect("start_quiz", s, form_data, "index")
                 /\ UNCHANGED <<bank, session, session_cache, clock, history, arg, res>>
            ELSE \E choices \in ListChoices(selected.list) :
                LET shuffled == ShuffleAll(selected.list, choices)
                    shuffled_questions == [i \in 1 .. Len(shuffled) |-> shuffled[i].question]
                    init == _initialize_quiz_session(session_cache, quiz_mode,
                                                     shuffled_questions, clock)
                IN  IF \E i \in 1 .. Len(shuffled) : shuffled[i].fault
                    THEN /\ last' = Fault("start_quiz", s, form_data)
                         /\ UNCHANGED <<bank, session, session_cache, clock,
                                        history, arg, res>>
                    ELSE /\ session' = [session EXCEPT ![s] = init.session]
                         /\ session_cache' = init.session_cache
                         /\ bank' = BankAfter(bank, selected.list, shuffled)
                         /\ history' = [history EXCEPT ![s] = NoHistory]
                         /\ last' = Served("start_quiz", s, form_data, "redirect",
                                IF quiz_mode = "immediate" THEN "quiz_immediate"
                                ELSE "quiz_batch",
                                FALSE, shuffled_questions)
                         /\ UNCHANGED <<clock, arg, res>>

quiz_immediate(s) ==
    LET questions == _get_session_questions(session_cache, session[s])
        current_index == DictGet(session[s], "current_question", 0)
    IN  /\ last' = IF Falsy(questions) THEN Redirect("quiz_immediate", s, <<>>, "index")
                   ELSE IF current_index >= Len(questions.list)
                   THEN Redirect("quiz_immediate", s, <<>>, "results")
                   ELSE Render("quiz_immediate", s, <<>>, "quiz_immediate")
        /\ UNCHANGED <<bank, session, session_cache, clock, history, arg, res>>

quiz_batch(s) ==
    LET questions == _get_session_questions(session_cache, session[s])
    IN  /\ last' = IF Falsy(questions) THEN Redirect("quiz_batch", s, <<>>, "index")
                   ELSE Render("quiz_batch", s, <<>>, "quiz_batch")
        /\ UNCHANGED <<bank, session, session_cache, clock, history, arg, res>>

\* session['user_answers'][str(question_id)] = user_answers
SaveAnswer(sess, question_id, user_answers) ==
    SetItem(sess, "user_answers",
            SetItem(sess["user_answers"], Str(question_id), user_answers))

\* if is_correct: session['correct_answers'] = session.get('correct_answers', 0) + 1
CountCorrect(sess, is_correct) ==
    IF is_correct
    THEN SetItem(sess, "correct_answers", DictGet(sess, "correct_answers", 0) + 1)
    ELSE sess

\* advancing by consuming the answered question from an inline list
Advance_consuming(sess, current_index) ==
    LET advanced == SetItem(sess, "current_question", current_index + 1)
    IN  IF "questions" \in DOMAIN sess /\ sess["questions"] # <<>>
        THEN SetItem(advanced, "questions", Tail(sess["questions"]))
        ELSE advanced

\* session['current_question'] = current_index + 1
Advance(sess, current_index) == SetItem(sess, "current_question", current_index + 1)

\* the forms posted to /submit_immediate: the fields of the question shown
ImmediateForms(questions, current_index) ==
    IF Falsy(questions) \/ current_index >= Len(questions.list) \/ current_index < 0
    THEN { <<>> }
    ELSE PostedForms(<<questions.list[current_index + 1]>>, "")

submit_immediate(s) ==
    LET questions == _get_session_questions(session_cache, session[s])
        current_index == DictGet(session[s], "current_question", 0)
    IN  \E form_data \in ImmediateForms(questions, current_index) :
        IF Falsy(questions)
        THEN /\ last' = Redirect("submit_immediate", s, <<>>, "index")
             /\ UNCHANGED <<bank, session, session_cache, clock, history, arg, res>>
        ELSE IF current_index >= Len(questions.list)
        THEN /\ last' = Redirect("submit_immediate", s, <<>>, "results")
             /\ UNCHANGED <<bank, session, session_cache, clock, history, arg, res>>
        ELSE
            LET current_question == questions.list[current_index + 1]
                answer == process_user_answer(current_question, form_data, "")
                question_id == current_question.question_number
            IN  IF answer.fault \/ "user_answers" \notin DOMAIN session[s]
                THEN /\ last' = Fault("submit_immediate", s, <<>>)
                     /\ UNCHANGED <<bank, session, session_cache, clock,
                                    history, arg, res>>
                ELSE /\ session' = [session EXCEPT ![s] =
                            Advance(CountCorrect(
                                SaveAnswer(@, question_id, answer.user_answers),
                                answer.is_correct), current_index)]
                     /\ history' = [history EXCEPT ![s].verdicts = Append(@, answer.is_correct)]
                     /\ last' = Served("submit_immediate", s, <<>>, "render",
                                       "feedback", answer.is_correct, <<>>)
                     /\ UNCHANGED <<bank, session_cache, clock, arg, res>>

\* the loop of lines 576-588 from question i on
RECURSIVE BatchLoop(_, _, _, _, _)
BatchLoop(questions, form_data, i, correct_answers, user_answers) ==
    IF i > Len(questions)
    THEN [fault |-> FALSE, correct_answers |-> correct_answers,
          user_answers |-> user_answers]
    ELSE LET question == questions[i]
             question_id == Str(question.question_number)
             answer == process_user_answer(question, form_data, "batch")
         IN  IF answer.fault
             THEN [fault |-> TRUE, correct_answers |-> correct_answers,
                   user_answers |-> user_answers]
             ELSE BatchLoop(questions, form_data, i + 1,
                      IF answer.is_correct THEN correct_answers + 1 ELSE correct_answers,
                      SetItem(user_answers, question_id, answer.user_answers))

submit_batch(s) ==
    LET questions == _get_session_questions(session_cache, session[s])
    IN  \E form_data \in (IF Falsy(questions) THEN { <<>> }
                          ELSE PostedForms(questions.list, "batch")) :
        IF Falsy(questions)
        THEN /\ last' = Redirect("submit_batch", s, <<>>, "index")
             /\ UNCHANGED <<bank, session, session_cache, clock, history, arg, res>>
        ELSE
            LET loop == BatchLoop(questions.list, form_data, 1, 0, <<>>)
            IN  IF loop.fault
                THEN /\ last' = Fault("submit_batch", s, <<>>)
                     /\ UNCHANGED <<bank, session, session_cache, clock,
                                    history, arg, res>>
                ELSE /\ session' = [session EXCEPT ![s] =
                            SetItem(SetItem(@, "user_answers", loop.user_answers),
                                    "correct_answers", loop.correct_answers)]
                     /\ history' = [history EXCEPT ![s].batched = TRUE]
                     /\ last' = Redirect("submit_batch", s, <<>>, "results")
                     /\ UNCHANGED <<bank, session_cache, clock, arg, res>>

\* an entry of question_details, or the IndexError or KeyError raised while
\* it is built
Detail(question, user_display, correct_display, is_correct) ==
    [fault |-> FALSE, question |-> question, user_answer |-> user_display,
     correct_answer |-> correct_display, is_correct |-> is_correct,
     is_multiple_choice |-> is_multiple_choice_question(question),
     is_mapping |-> is_mapping_question(question)]
DetailRaised(question) ==
    [fault |-> TRUE, question |-> question, user_answer |-> "",
     correct_answer |-> "", is_correct |-> FALSE,
     is_multiple_choice |-> FALSE, is_mapping |-> FALSE]

\* the body of the loop of _generate_question_details for one question
question_detail(question, user_answers) ==
    LET question_id == Str(question.question_number)
        user_answer_data == DictGet(user_answers, question_id, <<>>)
        options == question.options
        correct == question.correct_answer.items
    IN  IF is_mapping_question(question)
        THEN LET display == get_mapping_answer_display(question, user_answer_data)
             IN  IF display.fault THEN DetailRaised(question)
                 ELSE IF user_answer_data # <<>>
                 THEN Detail(question, display.user_display, display.correct_display,
                          \A i \in 1 .. Len(options) :
                              (IF HasKey(user_answer_data, options[i][1])
                               THEN Lookup(user_answer_data, options[i][1])
                               ELSE None) = Lookup(correct, options[i][1]))
                 ELSE Detail(question, "Not answered", display.correct_display, FALSE)
        ELSE IF is_multiple_choice_question(question)
        THEN LET correct_display ==
                     Join(get_answer_text_from_keys(question, Sorted(correct)), " | ")
             IN  IF user_answer_data # <<>>
                 THEN Detail(question,
                          Join(get_answer_text_from_keys(question,
                                   Sorted(user_answer_data)), " | "),
                          correct_display,
                          Sorted(user_answer_data) = Sorted(correct))
                 ELSE Detail(question, "Not answered", correct_display, FALSE)
        ELSE LET user_answer_texts ==
                     IF user_answer_data # <<>>
                     THEN get_answer_text_from_keys(question, <<user_answer_data[1]>>)
                     ELSE <<"Not answered">>
                 correct_answer_texts ==
                     IF correct = <<>> THEN <<>>
                     ELSE get_answer_text_from_keys(question, <<correct[1]>>)
             IN  IF user_answer_texts = <<>> \/ correct_answer_texts = <<>>
                 THEN DetailRaised(question)
                 ELSE Detail(question, user_answer_texts[1], correct_answer_texts[1],
                          user_answer_data # <<>> /\ user_answer_data[1] = correct[1])

\* _generate_question_details: the list of entries, or the exception raised
_generate_question_details(questions, user_answers) ==
    LET details == [i \in 1 .. Len(questions) |->
                        question_detail(questions[i], user_answers)]
    IN  [fault |-> \E i \in 1 .. Len(details) : details[i].fault,
         list |-> details]

\* a score truncated to its first decimal
score_percentage_truncated(correct_answers, total_questions) ==
    (1000 * correct_answers) \div total_questions

\* round((correct_answers / total_questions) * 100, 1), in tenths of a
\* percent (778 stands for 77.8): the tenth nearest to the quotient, the
\* even one when the quotient lies half way between two tenths; the double
\* arithmetic of Python yields this tenth for every total below 80
score_percentage(correct_answers, total_questions) ==
    LET tenths == (1000 * correct_answers) \div total_questions
        rest == (1000 * correct_answers) % total_questions
    IN  IF 2 * rest < total_questions THEN tenths
        ELSE IF 2 * rest > total_questions THEN tenths + 1
        ELSE IF tenths % 2 = 0 THEN tenths
        ELSE tenths + 1

\* the level and its class for a score given in tenths of a percent
_get_certification_level(score) ==
    IF score >= 800 THEN <<"Excellent - Ready for the exam", "success">>
    ELSE IF score >= 700 THEN <<"Good - Almost ready", "warning">>
    ELSE <<"Needs more study", "danger">>

results(s) ==
    LET questions == _get_session_questions(session_cache, session[s])
        correct_answers == DictGet(session[s], "correct_answers", 0)
        total_questions == Len(questions.list)
        score == score_percentage(correct_answers, total_questions)
        level == _get_certification_level(score)
        question_details ==
            _generate_question_details(questions.list,
                                       DictGet(session[s], "user_answers", <<>>))
    IN  /\ last' = IF Falsy(questions) THEN Redirect("results", s, <<>>, "index")
                   ELSE IF question_details.fault THEN Fault("results", s, <<>>)
                   ELSE Render("results", s, <<>>, "results")
                        @@ [correct_answers |-> correct_answers,
                            total_questions |-> total_questions,
                            score_percentage |-> score,
                            certification_level |-> level[1],
                            level_class |-> level[2],
                            question_details |-> question_details.list]
        /\ UNCHANGED <<bank, session, session_cache, clock, history, arg, res>>

-----------------------------------------------------------------------------
(* The environment of the handlers *)

\* time passes: datetime.now() reads later
Tick ==
    /\ clock < MaxClock
    /\ clock' = clock + 1
    /\ UNCHANGED <<bank, session, session_cache, last, history, arg, res>>

\* the process is restarted: session_cache is module state and starts empty,
\* questions.json is loaded again, the browsers keep their signed cookies
ProcessRestart ==
    /\ session_cache' = <<>>
    /\ last' = Render("restart", 0, <<>>, "none")
    /\ UNCHANGED <<bank, session, clock, history, arg, res>>

Request(s, forms) ==
    \/ index(s)
    \/ start_quiz(s, forms)
    \/ quiz_immediate(s)
    \/ quiz_batch(s)
    \/ submit_immediate(s)
    \/ submit_batch(s)
    \/ results(s)

InitWith(questions) ==
    /\ bank = questions
    /\ session = [s \in Sessions |-> <<>>]
    /\ session_cache = <<>>
    /\ clock = 0
    /\ last = Render("boot", 0, <<>>, "none")
    /\ history = [s \in Sessions |-> NoHistory]
    /\ arg = NoCall
    /\ res = NoCall

\* one browser and the whole bank
Init == InitWith(Bank)
Next == Request(1, StartForms) \/ ProcessRestart
Spec == Init /\ [][Next]_vars

\* NumSessions browsers share the process
InitShared == \E questions \in SharedBanks : InitWith(questions)
NextShared == (\E s \in Sessions : Request(s, SharedStartForms)) \/ Tick \/ ProcessRestart
SpecShared == InitShared /\ [][NextShared]_vars

\* two browsers whose attempts are both spilled and differ in length: the
\* first takes the whole of a bank that begins with the large question, in
\* immediate mode, and the second starts attempts on the second question alone
CollideBank == <<Q2, Q1>>
WholeBankForm == [quiz_mode |-> <<"immediate">>, selection_type |-> <<"all">>]
OneQuestionForm ==
    [quiz_mode |-> <<"immediate">>, selection_type |-> <<"range">>,
     start_range |-> << <<"2">> >>, end_range |-> << <<"2">> >>]
InitCollide == InitWith(CollideBank)
NextCollide ==
    \/ Request(1, {WholeBankForm})
    \/ start_quiz(2, {OneQuestionForm})
    \/ Tick
    \/ ProcessRestart
SpecCollide == InitCollide /\ [][NextCollide]_vars

-----------------------------------------------------------------------------
(* The functions of the program called on their own: one call is made on    *)
(* inputs drawn from bounded sets, arg holds the inputs and res the results *)

\* the text a browser posts for a number field
RECURSIVE NatText(_)
NatText(n) ==
    IF n < 10 THEN <<Digits[n + 1]>>
    ELSE NatText(n \div 10) \o <<Digits[(n % 10) + 1]>>
IntText(n) == IF n < 0 THEN <<"-">> \o NatText(0 - n) ELSE NatText(n)

\* the serialized sizes of the questions of the lists whose storage is decided
JsonLens == {100, 192, 3000}

\* a list of count questions, the first of one serialized size and the
\* others of another
Sized(count, first_len, rest_len) ==
    [i \in 1 .. count |->
        [question_number |-> i,
         json_len |-> IF i = 1 THEN first_len ELSE rest_len,
         options |-> << <<"A", "x1">>, <<"B", "x2">> >>,
         correct_answer |-> PyList(<<"A">>)]]

\* should_use_large_session and _initialize_quiz_session on a list
CallDecide ==
    /\ arg.fn = "none"
    /\ \E count \in 0 .. MaxCount, first_len \in JsonLens, rest_len \in JsonLens :
        LET questions == Sized(count, first_len, rest_len)
        IN  /\ arg' = [fn |-> "should_use_large_session", count |-> count,
                       first_len |-> first_len, rest_len |-> rest_len]
            /\ res' = [fn |-> "should_use_large_session",
                       estimate |-> estimate_session_size(questions),
                       large |-> should_use_large_session(questions),
                       session |-> _initialize_quiz_session(<<>>, "immediate",
                                                            questions, 0).session]
    /\ UNCHANGED <<bank, session, session_cache, clock, last, history>>

\* get_question_subset on a range, called directly and through the form
\* parsing of _get_selected_questions
CallSelect ==
    /\ arg.fn = "none"
    /\ \E start_range \in (0 - MaxBound) .. MaxBound, end_range \in (0 - MaxBound) .. MaxBound :
        LET form_data == [selection_type |-> <<"range">>,
                          start_range |-> <<IntText(start_range)>>,
                          end_range |-> <<IntText(end_range)>>]
        IN  /\ arg' = [fn |-> "get_question_subset",
                       start_range |-> start_range, end_range |-> end_range]
            /\ res' = [fn |-> "get_question_subset",
                       direct |-> get_question_subset(bank, "range",
                                      SomeInt(start_range), SomeInt(end_range),
                                      NoInt, <<>>),
                       routed |-> _get_selected_questions(bank, "range", form_data, <<>>)]
    /\ UNCHANGED <<bank, session, session_cache, clock, last, history>>

\* the questions handed to the shuffler: single-choice, multi-select, two
\* labels holding one text (the first, or the second, being the correct
\* one), and mapping questions of one and of two sub-fields
StandardQuestions ==
    { [question_number |-> 1, json_len |-> 100,
       options |-> << <<"A", "x1">>, <<"B", "x2">>, <<"C", "x3">> >>,
       correct_answer |-> PyList(<<"B">>)],
      [question_number |-> 2, json_len |-> 100,
       options |-> << <<"A", "x1">>, <<"B", "x2">>, <<"C", "x3">> >>,
       correct_answer |-> PyList(<<"C", "A">>)],
      [question_number |-> 3, json_len |-> 100,
       options |-> << <<"A", "x1">>, <<"B", "x1">>, <<"C", "x2">> >>,
       correct_answer |-> PyList(<<"A">>)],
      [question_number |-> 4, json_len |-> 100,
       options |-> << <<"A", "x1">>, <<"B", "x1">> >>,
       correct_answer |-> PyList(<<"B">>)] }
MappingQuestions ==
    { [question_number |-> 5, json_len |-> 100,
       options |-> << <<"service", <<"c1", "c2", "c3">> >>,
                      <<"feature", <<"d1", "d2">> >> >>,
       correct_answer |-> PyDict(<< <<"service", "c2">>, <<"feature", "d1">> >>)],
      [question_number |-> 6, json_len |-> 100,
       options |-> << <<"service", <<"c1", "c1", "c2">> >> >>,
       correct_answer |-> PyDict(<< <<"service", "c1">> >>)] }

\* shuffle_question_options on a question, for each order random.shuffle
\* can produce
CallShuffle ==
    /\ arg.fn = "none"
    /\ \E question \in StandardQuestions \cup MappingQuestions :
       \E choice \in ShuffleChoices(question) :
        LET shuffled == shuffle_question_options(question, choice)
        IN  /\ arg' = [fn |-> "shuffle_question_options",
                       question |-> question, choice |-> choice]
            /\ res' = [fn |-> "shuffle_question_options",
                       fault |-> shuffled.fault,
                       question |-> shuffled.question,
                       input |-> shuffled.input]
    /\ UNCHANGED <<bank, session, session_cache, clock, last, history>>

\* the values posted for the field of a standard question: up to
\* MaxPosted values, each a label of the question, an empty text or a label
\* that is no option; none stands for a form without the field as well
MaxPosted == 3
PostedLabels == {"", "A", "B", "C", "Z"}
LabelLists == UNION { [1 .. n -> PostedLabels] : n \in 0 .. MaxPosted }

\* the form of a standard question with these values posted
StandardForm(question, question_prefix, labels) ==
    IF labels = <<>> THEN <<>>
    ELSE StandardField(question, question_prefix) :> labels

\* what is posted for a sub-field of a mapping question: nothing, or one
\* value, a candidate of the sub-field, an empty text or another text
Unposted == <<>>
SubFieldPosts(question, i) ==
    {Unposted} \cup { <<v>> : v \in Range(question.options[i][2]) \cup {"", "zz"} }
MappingPostLists(question) ==
    { posts \in [1 .. Len(question.options) ->
                    UNION { SubFieldPosts(question, i) : i \in 1 .. Len(question.options) }] :
        \A i \in 1 .. Len(question.options) : posts[i] \in SubFieldPosts(question, i) }

\* the form of a mapping question with these values posted, sub-field by
\* sub-field from the i-th on
RECURSIVE MappingForm(_, _, _, _)
MappingForm(question, question_prefix, posts, i) ==
    IF i > Len(posts) THEN <<>>
    ELSE LET rest == MappingForm(question, question_prefix, posts, i + 1)
         IN  IF posts[i] = Unposted THEN rest
             ELSE (MappingField(question, question_prefix, question.options[i][1])
                       :> posts[i]) @@ rest

\* process_user_answer on a standard question, in immediate and in batch
\* field naming; reordered holds the verdicts for the values posted in
\* every other order
CallEvaluateStandard ==
    /\ arg.fn = "none"
    /\ \E question \in StandardQuestions, question_prefix \in {"", "batch"},
          labels \in LabelLists :
        LET answer == process_user_answer(question,
                          StandardForm(question, question_prefix, labels),
                          question_prefix)
        IN  /\ arg' = [fn |-> "process_user_answer", question |-> question,
                       question_prefix |-> question_prefix, posted |-> labels]
            /\ res' = [fn |-> "process_user_answer", answer |-> answer,
                       reordered |->
                           { process_user_answer(question,
                                 StandardForm(question, question_prefix,
                                              Shuffled(labels, perm)),
                                 question_prefix).is_correct :
                               perm \in Perms(Len(labels)) }]
    /\ UNCHANGED <<bank, session, session_cache, clock, last, history>>

\* process_user_answer on a mapping question
CallEvaluateMapping ==
    /\ arg.fn = "none"
    /\ \E question \in MappingQuestions, question_prefix \in {"", "batch"} :
       \E posts \in MappingPostLists(question) :
        LET answer == process_user_answer(question,
                          MappingForm(question, question_prefix, posts, 1),
                          question_prefix)
        IN  /\ arg' = [fn |-> "process_user_answer", question |-> question,
                       question_prefix |-> question_prefix, posted |-> posts]
            /\ res' = [fn |-> "process_user_answer", answer |-> answer,
                       reordered |-> {answer.is_correct}]
    /\ UNCHANGED <<bank, session, session_cache, clock, last, history>>

\* the statistics of results for an attempt of up to MaxTotal questions with
\* correct_answers of them answered correctly
MaxTotal == 16
CallScore ==
    /\ arg.fn = "none"
    /\ \E total_questions \in 1 .. MaxTotal :
       \E correct_answers \in 0 .. total_questions :
        LET score == score_percentage(correct_answers, total_questions)
            level == _get_certification_level(score)
        IN  /\ arg' = [fn |-> "results", correct_answers |-> correct_answers,
                       total_questions |-> total_questions]
            /\ res' = [fn |-> "results", score_percentage |-> score,
                       certification_level |-> level[1],
                       level_class |-> level[2]]
    /\ UNCHANGED <<bank, session, session_cache, clock, last, history>>

\* get_question_subset drawing num_random >= 1 questions at random from a
\* bank of up to MaxBank questions, called directly and through the form
\* parsing of _get_selected_questions
MaxBank == 3
CallSample ==
    /\ arg.fn = "none"
    /\ \E size \in 0 .. MaxBank, num_random \in 1 .. MaxBank + 1 :
       \E draw \in Samples(size, Min(num_random, size)) :
        LET questions == Sized(size, 100, 100)
            form_data == [selection_type |-> <<"random">>,
                          num_random |-> <<IntText(num_random)>>]
        IN  /\ arg' = [fn |-> "random_sample", questions |-> questions,
                       num_random |-> num_random, draw |-> draw]
            /\ res' = [fn |-> "random_sample",
                       direct |-> get_question_subset(questions, "random", NoInt,
                                      NoInt, SomeInt(num_random), draw),
                       routed |-> _get_selected_questions(questions, "random",
                                      form_data, draw)]
    /\ UNCHANGED <<bank, session, session_cache, clock, last, history>>

InitCalls == InitWith(Bank)
NextCalls ==
    \/ CallDecide
    \/ CallSelect
    \/ CallShuffle
    \/ CallEvaluateStandard
    \/ CallEvaluateMapping
    \/ CallScore
    \/ CallSample
SpecCalls == InitCalls /\ [][NextCalls]_vars

-----------------------------------------------------------------------------
(* The properties of the session state store *)

\* the session of s holds the state of an attempt
Started(s) == "quiz_mode" \in DOMAIN session[s]
\* the attempt of s is stored spilled
Spilled(s) == DictGet(session[s], "is_large_session", FALSE)
\* the spill key of s is not in the cache
Expired(s) ==
    /\ Spilled(s)
    /\ "session_id" \in DOMAIN session[s] => session[s]["session_id"] \notin DOMAIN session_cache
\* the list read for the attempt of s
AttemptQuestions(s) == _get_session_questions(session_cache, session[s])
\* the requests on an attempt
AttemptOps == {"quiz_immediate", "quiz_batch", "submit_immediate", "submit_batch", "results"}

\* C1: any two attempts started with spilled storage hold distinct spill
\* keys, whatever the clock read at each start, so that no start replaces
\* the list the cache holds for another attempt in progress.
C1_DistinctSpillKeys ==
    \A s, t \in Sessions :
        (s # t /\ Spilled(s) /\ Spilled(t))
            => session[s]["session_id"] # session[t]["session_id"]

\* C2: after a start that stores the attempt spilled, reading the questions
\* through the session returns the list that was written, and the progress
\* fields are cursor 0, no answers and correct count 0, for every list and
\* mode.
C2_SpillRoundTrip ==
    \A s \in Sessions :
        (last.op = "start_quiz" /\ last.sid = s /\ last.status = "redirect"
         /\ last.target # "index" /\ Spilled(s))
            => /\ get_session_questions(session_cache, session[s]) = Some(last.questions)
               /\ AttemptQuestions(s) = Some(last.questions)
               /\ session[s]["quiz_mode"] = FormGetOr(last.form, "quiz_mode", "immediate")
               /\ session[s]["total_questions"] = Len(last.questions)
               /\ session[s]["current_question"] = 0
               /\ session[s]["user_answers"] = <<>>
               /\ session[s]["correct_answers"] = 0

\* a start stored a list of two questions spilled
C2_Witness ==
    /\ last.op = "start_quiz"
    /\ last.target = "quiz_immediate"
    /\ Spilled(1)
    /\ Len(last.questions) = 2
    /\ session[1]["session_id"] \in DOMAIN session_cache

\* C3: for a spilled attempt whose key is not in the cache the read reports
\* the expired outcome, and every request on the attempt answers with a
\* redirect to the selection page and leaves the session as it is.
C3_ExpiredRedirects ==
    [][\A s \in Sessions :
        (Expired(s) /\ last'.op \in AttemptOps /\ last'.sid = s)
            => /\ get_session_questions(session_cache, session[s]).is_none
               /\ last'.status = "redirect"
               /\ last'.target = "index"
               /\ session'[s] = session[s]]_vars

\* a batch submission on an attempt that had an answer recorded and whose
\* key the cache lost
C3_Witness ==
    /\ Expired(1)
    /\ session[1]["user_answers"] # <<>>
    /\ last.op = "submit_batch"
    /\ last.sid = 1
    /\ last.target = "index"

\* C4: a list is stored spilled exactly when the size of a sample holding
\* its first question, times the count, exceeds 3000, or the count exceeds
\* 40; 41 questions spill and 10 questions of 100 bytes stay inline.
C4_StorageDecision ==
    arg.fn = "should_use_large_session" =>
        LET sample == SampleOverhead + arg.first_len
            spill == sample * arg.count > 3000 \/ arg.count > 40
        IN  /\ res.large <=> spill
            /\ res.session["is_large_session"] <=> spill
            /\ spill => "questions" \notin DOMAIN res.session
            /\ ~spill => /\ "session_id" \notin DOMAIN res.session
                         /\ Len(res.session["questions"]) = arg.count
            /\ arg.count = 41 => res.large
            /\ (arg.count = 10 /\ arg.first_len = 100) => ~res.large

\* ten questions of 100 bytes were stored inline
C4_Witness ==
    /\ arg.fn = "should_use_large_session"
    /\ arg.count = 10
    /\ arg.first_len = 100
    /\ res.estimate = 2080
    /\ ~res.session["is_large_session"]

\* C5: the session of a started attempt holds a spill key exactly when the
\* attempt is spilled and the question list exactly when it is inline.
C5_SessionShape ==
    \A s \in Sessions :
        Started(s) =>
            /\ Spilled(s) <=> "session_id" \in DOMAIN session[s]
            /\ ~Spilled(s) <=> "questions" \in DOMAIN session[s]

\* a spilled attempt of two questions after two submissions
C5_Witness ==
    /\ Spilled(1)
    /\ session[1]["current_question"] = 2
    /\ "session_id" \in DOMAIN session[1]

\* C6: a show, submit or results request, by any session, leaves the list
\* read for every started attempt as it was.
C6_QuestionsImmutable ==
    [][last'.op \in AttemptOps =>
        \A s \in Sessions :
            Started(s) =>
                _get_session_questions(session_cache', session'[s]) = AttemptQuestions(s)]_vars

\* another session had an answer evaluated while the attempt of session 1
\* was in progress
C6_Witness ==
    /\ Started(1)
    /\ ~Falsy(AttemptQuestions(1))
    /\ session[1]["current_question"] = 0
    /\ last.op = "submit_immediate"
    /\ last.sid = 2
    /\ last.status = "render"

-----------------------------------------------------------------------------
(* The properties of the quiz orchestrator *)

\* the answer stored for a question is the correct one
AnswerIsCorrect(question, stored) ==
    IF question.correct_answer.dict
    THEN \A i \in 1 .. Len(question.options) :
            /\ HasKey(stored, question.options[i][1])
            /\ Lookup(stored, question.options[i][1])
                   = Lookup(question.correct_answer.items, question.options[i][1])
    ELSE Range(stored) = Range(question.correct_answer.items)

\* how many of the verdicts are "correct"
RECURSIVE CountTrue(_)
CountTrue(flags) ==
    IF flags = <<>> THEN 0
    ELSE (IF flags[1] THEN 1 ELSE 0) + CountTrue(Tail(flags))

\* total immediate submissions, and no other, were evaluated: the attempt
\* is completed and the count is the number of correct verdicts
CompletedCount(s) ==
    (/\ Started(s)
     /\ ~Falsy(AttemptQuestions(s))
     /\ ~history[s].batched
     /\ Len(history[s].verdicts) = Len(AttemptQuestions(s).list))
        => /\ session[s]["current_question"] = Len(AttemptQuestions(s).list)
           /\ session[s]["correct_answers"] = CountTrue(history[s].verdicts)

\* C7: while the cursor is below the total, each immediate submission
\* evaluates the question at the cursor, records the answer under its
\* number, adds one to the count exactly when the answer is correct and
\* advances the cursor by one; after total submissions the attempt is
\* completed and the count is the number of correct verdicts.
C7_ImmediateStep ==
    [][\A s \in Sessions :
        /\ CompletedCount(s)'
        /\ LET questions == AttemptQuestions(s)
               cursor == DictGet(session[s], "current_question", 0)
               question == questions.list[cursor + 1]
               key == Str(question.question_number)
           IN  (/\ last'.op = "submit_immediate"
                /\ last'.sid = s
                /\ ~Falsy(questions)
                /\ session[s]["quiz_mode"] = "immediate"
                /\ cursor < Len(questions.list))
                   => /\ last'.status = "render"
                      /\ last'.target = "feedback"
                      /\ session'[s]["current_question"] = cursor + 1
                      /\ key \in DOMAIN session'[s]["user_answers"]
                      /\ last'.is_correct
                            <=> AnswerIsCorrect(question, session'[s]["user_answers"][key])
                      /\ session'[s]["correct_answers"] = session[s]["correct_answers"]
                            + (IF last'.is_correct THEN 1 ELSE 0)]_vars

\* C8: a batch submission evaluates every question of the attempt, stores
\* one answer per question number, sets the count to the number of
\* questions answered correctly and sends the browser to the results.
C8_BatchSubmission ==
    [][\A s \in Sessions :
        LET questions == AttemptQuestions(s)
            numbers == { Str(questions.list[i].question_number) :
                            i \in 1 .. Len(questions.list) }
        IN  (/\ last'.op = "submit_batch"
             /\ last'.sid = s
             /\ ~Falsy(questions)
             /\ session[s]["quiz_mode"] = "batch")
                => /\ last'.status = "redirect"
                   /\ last'.target = "results"
                   /\ DOMAIN session'[s]["user_answers"] = numbers
                   /\ session'[s]["correct_answers"] = Cardinality(
                        { i \in 1 .. Len(questions.list) :
                            AnswerIsCorrect(questions.list[i],
                                session'[s]["user_answers"][
                                    Str(questions.list[i].question_number)]) })]_vars

\* the selection of a start form is invalid or matches no question
InvalidSelection(questions, form_data) ==
    LET selection_type == FormGetOr(form_data, "selection_type", "all")
        start_range == FormInt(form_data, "start_range", 1)
        end_range == FormInt(form_data, "end_range", Len(questions))
        num_random == FormInt(form_data, "num_random", 10)
    IN  \/ /\ selection_type = "range"
           /\ \/ ~start_range.ok
              \/ ~end_range.ok
              \/ ~\E i \in 1 .. Len(questions) :
                    /\ start_range.val <= questions[i].question_number
                    /\ questions[i].question_number <= end_range.val
        \/ /\ selection_type = "random"
           /\ ~num_random.ok \/ num_random.val <= 0

\* C9: a start whose selection is invalid or yields no question creates no
\* attempt with questions, returns the browser to the selection page and
\* raises no fault.
C9_InvalidSelection ==
    (last.op = "start_quiz" /\ InvalidSelection(bank, last.form))
        => /\ last.status = "redirect"
           /\ last.questions = <<>>
           /\ last.target = "index" \/ Falsy(AttemptQuestions(last.sid))

\* the questions of the bank numbered within start .. end, in bank order
InRange(questions, start, end) ==
    SelectSeq(questions, LAMBDA q : start <= q.question_number /\ q.question_number <= end)

\* C10: for every pair of integers start and end, zero, negative and
\* start > end included, the range selection is the bank's questions
\* numbered within start .. end, in bank order.
C10_RangeSelection ==
    arg.fn = "get_question_subset" =>
        LET expected == Selected(InRange(bank, arg.start_range, arg.end_range))
        IN  /\ res.direct = expected
            /\ res.routed = expected

\* C11: the start screen leaves the session without any attempt state,
\* whatever the state before, and every request on an attempt made on such
\* a session redirects to the selection page and leaves it empty.
C11_Restart ==
    [][\A s \in Sessions :
        /\ (last'.op = "index" /\ last'.sid = s)
               => /\ DOMAIN session'[s] = {}
                  /\ last'.status = "render"
        /\ (DOMAIN session[s] = {} /\ last'.op \in AttemptOps /\ last'.sid = s)
               => /\ last'.status = "redirect"
                  /\ last'.target = "index"
                  /\ DOMAIN session'[s] = {}]_vars

\* after a spilled attempt was started and the start screen was shown, a
\* request on the attempt was redirected
C11_Witness ==
    /\ DOMAIN session[1] = {}
    /\ session_cache # <<>>
    /\ last.op \in AttemptOps
    /\ last.sid = 1
    /\ last.target = "index"

-----------------------------------------------------------------------------
(* The properties of the option shuffler *)

\* how many times a value occurs in a list
Occurrences(list, v) == Cardinality({ i \in 1 .. Len(list) : list[i] = v })
\* two lists hold the same values, each the same number of times
SameCollection(a, b) ==
    /\ Len(a) = Len(b)
    /\ \A i \in 1 .. Len(a) : Occurrences(a, a[i]) = Occurrences(b, a[i])
\* the shuffler was called on a standard question, on a mapping question
ShuffledStandard ==
    arg.fn = "shuffle_question_options" /\ ~arg.question.correct_answer.dict
ShuffledMapping ==
    arg.fn = "shuffle_question_options" /\ arg.question.correct_answer.dict

\* C12: the record the shuffle of a standard question returns has the
\* labels of the original and the original's option texts, each text as
\* many times; only which label holds which text may differ.
C12_ShuffleKeepsOptions ==
    (ShuffledStandard /\ ~res.fault) =>
        /\ Keys(res.question.options) = Keys(arg.question.options)
        /\ SameCollection(Values(res.question.options), Values(arg.question.options))
        /\ res.question.question_number = arg.question.question_number

\* a question with one text under two labels was shuffled into another order
C12_Witness ==
    /\ ShuffledStandard
    /\ ~res.fault
    /\ Occurrences(Values(arg.question.options), "x1") = 2
    /\ res.question.options # arg.question.options

\* C13: for every standard question, one with the same text under two
\* labels included, and every permutation, the shuffle returns a record
\* without fault, whose correct_answer has one label for each originally
\* correct label, holding the text that label held.
C13_ShuffleKeepsCorrect ==
    ShuffledStandard =>
        LET before == arg.question
            after == res.question
        IN  /\ ~res.fault
            /\ Len(after.correct_answer.items) = Len(before.correct_answer.items)
            /\ \A c \in 1 .. Len(before.correct_answer.items) :
                /\ HasKey(after.options, after.correct_answer.items[c])
                /\ Lookup(after.options, after.correct_answer.items[c])
                       = Lookup(before.options, before.correct_answer.items[c])

\* C14: after any sequence of starts every record of the question bank is
\* as it was loaded.
C14_BankUnchanged == bank = Bank

\* a start shuffled a standard and a mapping question into new orders
C14_Witness ==
    /\ last.op = "start_quiz"
    /\ Len(last.questions) = 2
    /\ \A i \in 1 .. 2 : \A j \in 1 .. Len(bank) : last.questions[i] # bank[j]
    /\ \E i \in 1 .. 2 : last.questions[i].correct_answer.dict

\* C15: the shuffle of a mapping question keeps the sub-fields and their
\* order, gives each sub-field a permutation of its candidates and carries
\* its correct value over, which is still one of the candidates.
C15_MappingShuffle ==
    ShuffledMapping =>
        LET before == arg.question
            after == res.question
        IN  /\ ~res.fault
            /\ Keys(after.options) = Keys(before.options)
            /\ Keys(after.correct_answer.items) = Keys(before.options)
            /\ \A i \in 1 .. Len(before.options) :
                /\ SameCollection(after.options[i][2], before.options[i][2])
                /\ Lookup(after.correct_answer.items, before.options[i][1])
                       = Lookup(before.correct_answer.items, before.options[i][1])
                /\ \E k \in 1 .. Len(after.options[i][2]) :
                       after.options[i][2][k]
                           = Lookup(after.correct_answer.items, before.options[i][1])

\* both sub-fields of a mapping question were given a new order
C15_Witness ==
    /\ ShuffledMapping
    /\ ~res.fault
    /\ Len(arg.question.options) = 2
    /\ \A i \in 1 .. 2 : res.question.options[i][2] # arg.question.options[i][2]

-----------------------------------------------------------------------------
(* The properties of the answer evaluator *)

\* the evaluator was called on a single-choice, a multi-select, a mapping
\* question
EvaluatedSingle ==
    /\ arg.fn = "process_user_answer"
    /\ ~arg.question.correct_answer.dict
    /\ Len(arg.question.correct_answer.items) = 1
EvaluatedMulti ==
    /\ arg.fn = "process_user_answer"
    /\ ~arg.question.correct_answer.dict
    /\ Len(arg.question.correct_answer.items) > 1
EvaluatedMapping ==
    arg.fn = "process_user_answer" /\ arg.question.correct_answer.dict
\* the evaluation returned the verdict "correct"
VerdictCorrect == ~res.answer.fault /\ res.answer.is_correct

\* C16: a single-choice answer is correct exactly when a label was
\* submitted and it is the sole member of correct_answer; without the
\* answer field the evaluation returns "incorrect" and raises nothing, in
\* immediate and in batch field naming.
C16_SingleChoice ==
    EvaluatedSingle =>
        /\ VerdictCorrect <=>
               /\ arg.posted # <<>>
               /\ arg.posted[1] = arg.question.correct_answer.items[1]
        /\ arg.posted = <<>> =>
               /\ ~res.answer.fault
               /\ ~res.answer.is_correct
               /\ res.answer.user_answers = <<>>

\* the correct label was posted in batch field naming
C16_Witness ==
    /\ EvaluatedSingle
    /\ arg.question_prefix = "batch"
    /\ arg.posted = <<"B">>
    /\ arg.question.correct_answer.items = <<"B">>
    /\ VerdictCorrect

C18_Mapping ==
    EvaluatedMapping =>
        /\ ~res.answer.fault
        /\ res.answer.is_correct <=>
               \A i \in 1 .. Len(arg.question.options) :
                   /\ arg.posted[i] # Unposted
                   /\ arg.posted[i][1] = Lookup(arg.question.correct_answer.items,
                                                arg.question.options[i][1])

\* of two sub-fields one was submitted right and the other wrong, in batch
\* field naming
C18_Witness ==
    /\ EvaluatedMapping
    /\ arg.question_prefix = "batch"
    /\ arg.posted = << <<"c2">>, <<"d2">> >>
    /\ ~res.answer.fault
    /\ ~res.answer.is_correct

\* C19: whatever a submission carries (no field, an empty value, a label or
\* a candidate that is no option of the question), submit_immediate and
\* submit_batch end with a verdict, never with an unhandled fault.
C19_NoEvaluatorFault ==
    last.op \in {"submit_immediate", "submit_batch"} => last.status # "fault"

-----------------------------------------------------------------------------
(* The properties of the report *)

\* C20: for every total >= 1 and 0 <= correct_answers <= total the reported
\* score is correct_answers / total * 100 rounded to one decimal place (no
\* other tenth is nearer to the quotient), and the level is "ready" for a
\* score of at least 80, "almost ready" for a score of at least 70 and below
\* 80, and "needs more study" otherwise, so a quotient of at least 80, of
\* 70 up to 79.95, below 69.95 gets these levels; 7 of 9 gives 77.8,
\* "almost ready".
C20_ScoreAndTier ==
    arg.fn = "results" =>
        LET score == res.score_percentage
            exact == 1000 * arg.correct_answers
            total == arg.total_questions
            distance == IF score * total >= exact THEN score * total - exact
                        ELSE exact - score * total
        IN  /\ score \in 0 .. 1000
            /\ 2 * distance <= total
            /\ res.certification_level =
                   IF score >= 800 THEN "Excellent - Ready for the exam"
                   ELSE IF score >= 700 THEN "Good - Almost ready"
                   ELSE "Needs more study"
            /\ 100 * arg.correct_answers >= 80 * total
                   => res.certification_level = "Excellent - Ready for the exam"
            /\ (/\ 100 * arg.correct_answers >= 70 * total
                /\ 2000 * arg.correct_answers < 1599 * total)
                   => res.certification_level = "Good - Almost ready"
            /\ 2000 * arg.correct_answers < 1399 * total
                   => res.certification_level = "Needs more study"
            /\ (arg.correct_answers = 7 /\ total = 9) =>
                   /\ score = 778
                   /\ res.certification_level = "Good - Almost ready"

\* 7 of 9 was scored: 77.8, almost ready
C20_Witness ==
    /\ arg.fn = "results"
    /\ arg.correct_answers = 7
    /\ arg.total_questions = 9
    /\ res.score_percentage = 778
    /\ res.level_class = "warning"

-----------------------------------------------------------------------------
(* The properties of the random selection *)

\* the list holds count questions, each of the bank, no two the same
DistinctFrom(list, questions, count) ==
    /\ Len(list) = count
    /\ \A i \in 1 .. Len(list) : list[i] \in Range(questions)
    /\ \A i, j \in 1 .. Len(list) : list[i] = list[j] => i = j

\* C21: for every count >= 1 the random selection holds exactly
\* min(count, bank size) questions, all of the bank and pairwise distinct,
\* whether the count comes as an int or as the text of the form.
C21_RandomSelection ==
    arg.fn = "random_sample" =>
        LET expected == Min(arg.num_random, Len(arg.questions))
        IN  /\ ~res.direct.error
            /\ DistinctFrom(res.direct.list, arg.questions, expected)
            /\ ~res.routed.error
            /\ DistinctFrom(res.routed.list, arg.questions, expected)

\* more questions were asked for than the bank holds, and the whole bank
\* came back in another order
C21_Witness ==
    /\ arg.fn = "random_sample"
    /\ arg.num_random > Len(arg.questions)
    /\ Len(res.routed.list) = MaxBank
    /\ res.routed.list # arg.questions

-----------------------------------------------------------------------------
(* The properties of the spill cache over the life of the process *)

\* the step is one the running process takes: a request or the passing of
\* time, not a restart
ProcessRuns == last'.op # "restart" \/ clock' # clock

\* C22: while the process runs every key of the spill cache stays in it,
\* whatever request is served (start, submission, results, start screen),
\* and a request on a spilled attempt whose session holds a key of the
\* cache is never answered with the expired outcome.
C22_SpillEntriesPersist ==
    [][ProcessRuns =>
        /\ DOMAIN session_cache \subseteq DOMAIN session_cache'
        /\ \A s \in Sessions :
            (/\ Spilled(s)
             /\ "session_id" \in DOMAIN session[s]
             /\ session[s]["session_id"] \in DOMAIN session_cache
             /\ last'.op \in AttemptOps
             /\ last'.sid = s)
                => /\ ~get_session_questions(session_cache, session[s]).is_none
                   /\ ~(last'.status = "redirect" /\ last'.target = "index")
                   /\ session'[s]["session_id"] \in DOMAIN session_cache']_vars

\* two attempts were spilled under two keys, the first browser went back to
\* the start screen, and the results of the second attempt were rendered
\* with both keys still in the cache
C22_Witness ==
    /\ Cardinality(DOMAIN session_cache) = 2
    /\ DOMAIN session[1] = {}
    /\ Spilled(2)
    /\ last.op = "results"
    /\ last.sid = 2
    /\ last.status = "render"

-----------------------------------------------------------------------------
(* The properties of the report over sequences of requests *)

\* C23: after any sequence of requests on a session, in any order and
\* whatever the mode of the attempt, correct_answers never exceeds the
\* number of questions of the attempt, and the score the results report
\* never exceeds 100.
C23_CountBounded ==
    /\ \A s \in Sessions :
        ("correct_answers" \in DOMAIN session[s] /\ ~Falsy(AttemptQuestions(s)))
            => session[s]["correct_answers"] <= Len(AttemptQuestions(s).list)
    /\ (last.op = "results" /\ last.status = "render")
            => last.score_percentage <= 1000

\* the questions have pairwise distinct numbers
DistinctNumbers(questions) ==
    \A i, j \in 1 .. Len(questions) :
        questions[i].question_number = questions[j].question_number => i = j

\* how many entries of the detail list are marked correct
CorrectDetails(details) ==
    Cardinality({ i \in 1 .. Len(details) : details[i].is_correct })

\* C24: whenever the results are rendered for an attempt whose questions
\* have pairwise distinct numbers, the number of entries of the detail list
\* marked correct equals the reported correct_answers, after any sequence
\* of submissions.
C24_ReportConsistent ==
    (/\ last.op = "results"
     /\ last.status = "render"
     /\ DistinctNumbers(AttemptQuestions(last.sid).list))
        => CorrectDetails(last.question_details) = last.correct_answers

-----------------------------------------------------------------------------
(* The properties of the cursor *)

\* the cursor of the attempt of s lies within 0 .. total
CursorInBounds(s) ==
    (Started(s) /\ ~Falsy(AttemptQuestions(s)))
        => /\ session[s]["current_question"] >= 0
           /\ session[s]["current_question"] <= Len(AttemptQuestions(s).list)

\* no step within the attempt of s moves its cursor back
CursorMonotone(s) ==
    (/\ Started(s)
     /\ Started(s)'
     /\ ~(last'.op \in {"start_quiz", "index"} /\ last'.sid = s))
        => session'[s]["current_question"] >= session[s]["current_question"]

\* an immediate submission on the completed attempt of s (a step in which
\* no time passes and that answers to s) changes nothing and redirects to
\* the results
CompletedIsFinal(s) ==
    (/\ Started(s)
     /\ ~Falsy(AttemptQuestions(s))
     /\ session[s]["current_question"] = Len(AttemptQuestions(s).list)
     /\ clock' = clock
     /\ last'.op = "submit_immediate"
     /\ last'.sid = s)
        => /\ session'[s] = session[s]
           /\ last'.status = "redirect"
           /\ last'.target = "results"

\* C25: in every state of an attempt 0 <= cursor <= total and the cursor
\* never decreases; once cursor = total a further immediate submission
\* leaves cursor, answers and correct_answers unchanged and redirects to the
\* results.
C25_CursorSafety ==
    [][\A s \in Sessions :
        /\ CursorInBounds(s)'
        /\ CursorMonotone(s)
        /\ CompletedIsFinal(s)]_vars

=============================================================================
